---- MODULE Spec2Model ----
(***************************************************************************)
(* Model of fios-stats (src/src/main.rs): one run of the program, from     *)
(* argument parsing to process exit.  The router and the InfluxDB sink are *)
(* the environment: every response they can give is chosen                 *)
(* nondeterministically when the blocking call of the program returns.     *)
(*                                                                         *)
(* Strings that the program parses or formats (cookie values, header       *)
(* values) are sequences of one-character strings.  u32 and u64 values are *)
(* sequences of 16-bit limbs, most significant first, so that they keep    *)
(* their exact width.                                                      *)
(***************************************************************************)
EXTENDS Integers, Sequences, FiniteSets, TLC

(***************************************************************************)
(* Bounds of the model.                                                    *)
(***************************************************************************)
\* largest number of Set-Cookie entries in the answer to the login POST
MaxCookies == 3

(***************************************************************************)
(* Fixed-width unsigned integers.                                          *)
(***************************************************************************)
Base == 65536
U32Limbs == 2
U64Limbs == 4

Digits == <<"0", "1", "2", "3", "4", "5", "6", "7", "8", "9">>

IsDigit(c) == \E i \in 1..10 : Digits[i] = c

DigitVal(c) == (CHOOSE i \in 1..10 : Digits[i] = c) - 1

Zero(w) == [i \in 1..w |-> 0]

\* n * m + a on limbs; carry is what does not fit the width of n
RECURSIVE MulAdd(_, _, _)
MulAdd(n, m, a) ==
    IF n = <<>> THEN [val |-> <<>>, carry |-> a]
    ELSE LET t    == n[Len(n)] * m + a
             rest == MulAdd(SubSeq(n, 1, Len(n) - 1), m, t \div Base)
         IN  [val |-> Append(rest.val, t % Base), carry |-> rest.carry]

\* quotient and remainder of n by 10, r being the remainder carried in
RECURSIVE DivRem10(_, _)
DivRem10(n, r) ==
    IF n = <<>> THEN [q |-> <<>>, r |-> r]
    ELSE LET t    == r * Base + n[1]
             rest == DivRem10(Tail(n), t % 10)
         IN  [q |-> <<t \div 10>> \o rest.q, r |-> rest.r]

RECURSIVE FmtDigits(_)
FmtDigits(n) ==
    IF n = Zero(Len(n)) THEN <<>>
    ELSE LET d == DivRem10(n, 0)
         IN  Append(FmtDigits(d.q), Digits[d.r + 1])

\* format!("{}", n) of an unsigned integer
Display(n) == IF n = Zero(Len(n)) THEN <<"0">> ELSE FmtDigits(n)

\* the digit loop of from_str_radix: checked_mul(10) then checked_add(digit)
RECURSIVE ParseDigits(_, _)
ParseDigits(s, acc) ==
    IF s = <<>> THEN [ok |-> TRUE, val |-> acc]
    ELSE IF ~IsDigit(s[1]) THEN [ok |-> FALSE, val |-> acc]
    ELSE LET m == MulAdd(acc, 10, DigitVal(s[1]))
         IN  IF m.carry # 0 THEN [ok |-> FALSE, val |-> acc]
             ELSE ParseDigits(Tail(s), m.val)

\* str::parse::<uN>() with N = 16 * w: an optional '+', then decimal digits
ParseUnsigned(s, w) ==
    IF s = <<>> THEN [ok |-> FALSE, val |-> Zero(w)]
    ELSE LET ds == IF s[1] = "+" THEN Tail(s) ELSE s
         IN  IF ds = <<>> THEN [ok |-> FALSE, val |-> Zero(w)]
             ELSE ParseDigits(ds, Zero(w))


(***************************************************************************)
(* Values of the environment.                                              *)
(***************************************************************************)
None == <<>>
Some(v) == <<v>>
IsSome(o) == Len(o) = 1
Get(o) == o[1]

BASE_URI == "https://myfiosgateway.com/api/"

INFLUX_URI == "http://influx/write?db=fios"

CONTENT_TYPE_JSON == "application/json;charset=UTF-8"

\* --password and --influxdb of the command line
Passwords == {"p", "pw"}
InfluxArgs == {None, Some(INFLUX_URI)}

\* passwordSalt values the router may hand out
Salts == {"", "w"}

\* the value 2^32 - 1 and its successor, as cookie values
U32MaxStr == <<"4", "2", "9", "4", "9", "6", "7", "2", "9", "5">>
U32OverStr == <<"4", "2", "9", "4", "9", "6", "7", "2", "9", "6">>

\* cookies the router may set in the answer to the login POST
CookieSet ==
    {[name |-> "XSRF-TOKEN", value |-> v] : v \in {<<"a", "b">>, <<"7">>}}
    \cup {[name |-> "Session", value |-> v] :
            v \in {<<"1", "2", "3", "4">>, <<"+", "0", "7">>, <<"x">>,
                   U32MaxStr, U32OverStr}}
    \cup {[name |-> "lang", value |-> <<"1">>]}

RECURSIVE SeqsUpTo(_, _)
SeqsUpTo(S, n) ==
    IF n = 0 THEN {<<>>}
    ELSE LET shorter == SeqsUpTo(S, n - 1)
         IN  shorter \cup {Append(q, e) : q \in shorter, e \in S}

CookieLists == SeqsUpTo(CookieSet, MaxCookies)

\* HTTP status codes the servers may answer with
LoginStatuses == {200, 204, 401}
GetStatuses == {200, 500}
InfluxStatuses == {200, 204, 500}

\* a JSON number that as_u64() accepts, one it rejects, and a missing member
U64(n) == [kind |-> "u64", val |-> n]
NotU64 == [kind |-> "other", val |-> Zero(U64Limbs)]
Null == [kind |-> "null", val |-> Zero(U64Limbs)]

Small(k) == <<0, 0, 0, k>>
\* 2^61 - 1 is the largest value whose product with 8 fits 64 bits
TwoTo61Minus1 == <<8191, 65535, 65535, 65535>>
TwoTo61 == <<8192, 0, 0, 0>>
U64Max == <<65535, 65535, 65535, 65535>>

MkDoc(rx, tx, errors, dropped) ==
    [minutesRx0 |-> rx, minutesTx0 |-> tx, rxErrors |-> errors, rxDropped |-> dropped]

NullDoc == MkDoc(Null, Null, Null, Null)

SampleDoc == MkDoc(U64(Small(10)), U64(Small(20)), U64(Small(1)), U64(Small(2)))

\* network-status documents the router may return
Docs ==
    { SampleDoc,
      [SampleDoc EXCEPT !.rxErrors = Null],
      [SampleDoc EXCEPT !.minutesRx0 = NotU64],
      [SampleDoc EXCEPT !.rxDropped = NotU64],
      [SampleDoc EXCEPT !.minutesTx0 = U64(TwoTo61)],
      MkDoc(U64(TwoTo61Minus1), U64(Small(0)), U64(U64Max), U64(Small(2))),
      MkDoc(U64(TwoTo61Minus1), U64(TwoTo61Minus1), U64(Small(0)), U64(TwoTo61Minus1)) }

\* response bodies: text that is not JSON, the login challenge, a status document
MkBody(kind, salt, doc) == [kind |-> kind, salt |-> salt, doc |-> doc]

NoBody == MkBody("garbage", "", NullDoc)

Bodies ==
    {NoBody}
    \cup {MkBody("login", s, NullDoc) : s \in Salts}
    \cup {MkBody("network", "", d) : d \in Docs}

\* bodies that come with an error status
ErrorBodies ==
    {NoBody, MkBody("network", "", SampleDoc)} \cup {MkBody("login", s, NullDoc) : s \in Salts}

(***************************************************************************)
(* Requests, responses and the two HTTP clients.                           *)
(***************************************************************************)
\* default headers of a reqwest::Client
NoHeaders == [content_type |-> "", x_xsrf_token |-> None, cookie |-> None]

\* client of main, lines 84-87
client == NoHeaders

\* what the log keeps of a result: how the call ended, the status and the body
Logged(outcome, st, body) == [outcome |-> outcome, status |-> st, body |-> body]

Pending == Logged("pending", 0, NoBody)

SendErr == [outcome |-> "send_err", status |-> 0, cookies |-> <<>>, body |-> NoBody]

TextErr(st) == [outcome |-> "text_err", status |-> st, cookies |-> <<>>, body |-> NoBody]

Response(st, cookies, body) ==
    [outcome |-> "response", status |-> st, cookies |-> cookies, body |-> body]

NoPayload == [kind |-> "none", password |-> "", lines |-> {}]

Request(method, url, headers, payload) ==
    [method |-> method, url |-> url, headers |-> headers, payload |-> payload,
     result |-> Pending]

\* variant: a test for "not below 200" that lets 4xx and 5xx through
is_success_NoUpperBound(st) == st >= 200

\* StatusCode::is_success
is_success(st) == st >= 200 /\ st <= 299

NO_CONTENT == 204

\* Sha512 digest of a message rendered by {:x}: an injective function of the
\* message (collision freedom is assumed), never equal to the message
Sha512Hex(msg) == "sha512:" \o msg

SessionEq == <<"S", "e", "s", "s", "i", "o", "n", "=">>

\* error values: the variants of FetchError, and a panic
Err(kind, status) == [kind |-> kind, status |-> status]


(***************************************************************************)
(* State of one run.                                                       *)
(***************************************************************************)
VARIABLES
    pc,             \* position in main
    args,           \* the parsed command line
    log,            \* every request issued so far, with its result
    login_info,     \* Option: the passwordSalt of the LoginResponse
    auth_info,      \* Option: the AuthInfo returned by do_login
    authed_client,  \* Option: default headers of the authenticated client
    response,       \* Option: the Response do_login holds
    raw_data,       \* Option: body of the answer to GET network/1
    data,           \* Option: the parsed network-status document
    counters,       \* Option: rx, tx, errors, dropped
    stdout,         \* lines printed
    error,          \* Option: the error main returned, or the panic
    exit            \* Option: exit status of the process

vars == <<pc, args, log, login_info, auth_info, authed_client, response,
          raw_data, data,
          counters, stdout, error, exit>>

\* struct AuthInfo and its Default
AuthInfo(token, session) == [token |-> token, session |-> session]

AuthInfoDefault == AuthInfo(<<>>, Zero(U32Limbs))

Init ==
    /\ pc = "get_login_info"
    /\ args \in [password : Passwords, influx_db : InfluxArgs]
    /\ log = <<>>
    /\ login_info = None
    /\ auth_info = None
    /\ authed_client = None
    /\ response = None
    /\ raw_data = None
    /\ data = None
    /\ counters = None
    /\ stdout = <<>>
    /\ error = None
    /\ exit = None

\* client.get(..).send() / client.post(..).send(): the request goes out
Send(req) == log' = Append(log, req)

\* the blocking call returns with result res
Recv(res) ==
    log' = [log EXCEPT ![Len(log)].result = Logged(res.outcome, res.status, res.body)]

\* variant: the error is reported and main returns Ok(())
Fail_ExitZero(e) ==
    /\ pc' = "done"
    /\ error' = Some(e)
    /\ exit' = Some(0)

\* main returns Err(e): the process exits with status 1
Fail(e) ==
    /\ pc' = "done"
    /\ error' = Some(e)
    /\ exit' = Some(1)

\* unwrap() on None/Err or an arithmetic overflow check: the process exits
\* with status 101
Panic ==
    /\ pc' = "done"
    /\ error' = Some(Err("Panic", 0))
    /\ exit' = Some(101)

\* results a GET through fetch_api can have: no answer, an answer whose body
\* cannot be read, an answer with any body, an error status with some body
GetResults ==
    {SendErr}
    \cup {TextErr(st) : st \in GetStatuses}
    \cup {Response(200, <<>>, b) : b \in Bodies}
    \cup {Response(500, <<>>, b) : b \in ErrorBodies}

\* variant: error_for_status() is applied to the response
fetch_api_ErrorForStatus(res) ==
    IF res.outcome = "response" /\ res.status < 400
    THEN [ok |-> TRUE, body |-> res.body]
    ELSE [ok |-> FALSE, body |-> NoBody]

\* fetch_api: the body of whatever response arrives, an error otherwise
fetch_api(res) ==
    IF res.outcome = "response"
    THEN [ok |-> TRUE, body |-> res.body]
    ELSE [ok |-> FALSE, body |-> NoBody]

\* ---- get_login_info -----------------------------------------------------
GetLoginInfoSend ==
    /\ pc = "get_login_info"
    /\ Send(Request("GET", BASE_URI \o "login", client, NoPayload))
    /\ pc' = "get_login_info_wait"
    /\ UNCHANGED <<args, login_info, auth_info, authed_client, response, raw_data, data,
                   counters, stdout, error, exit>>

GetLoginInfoRecv ==
    /\ pc = "get_login_info_wait"
    /\ \E res \in GetResults :
        /\ Recv(res)
        /\ LET r == fetch_api(res)
           IN  IF ~r.ok
               THEN Fail(Err("Http", 0)) /\ UNCHANGED login_info
               ELSE IF r.body.kind # "login"
               THEN Fail(Err("Json", 0)) /\ UNCHANGED login_info
               ELSE /\ login_info' = Some(r.body.salt)
                    /\ pc' = "do_login"
                    /\ UNCHANGED <<error, exit>>
    /\ UNCHANGED <<args, auth_info, authed_client, response, raw_data, data, counters, stdout>>

\* ---- do_login -----------------------------------------------------------
\* variant: hasher.input(password_salt) is left out
LoginPayload_NoSalt(password, password_salt) ==
    [kind |-> "json", password |-> Sha512Hex(password), lines |-> {}]

\* the json body of the login POST
LoginPayload(password, password_salt) ==
    [kind |-> "json", password |-> Sha512Hex(password \o password_salt),
     lines |-> {}]

DoLoginSend ==
    /\ pc = "do_login"
    /\ Send(Request("POST", BASE_URI \o "login",
                    [client EXCEPT !.content_type = CONTENT_TYPE_JSON],
                    LoginPayload(args.password, Get(login_info))))
    /\ pc' = "do_login_wait"
    /\ UNCHANGED <<args, login_info, auth_info, authed_client, response, raw_data, data,
                   counters, stdout, error, exit>>

\* variant: the wildcard arm of the match stores the value as the token
RECURSIVE ReadCookies_WildcardToken(_, _)
ReadCookies_WildcardToken(cookies, info) ==
    IF cookies = <<>> THEN [ok |-> TRUE, info |-> info]
    ELSE LET c == Head(cookies)
         IN  IF c.name = "Session"
             THEN LET n == ParseUnsigned(c.value, U32Limbs)
                  IN  IF n.ok
                      THEN ReadCookies_WildcardToken(Tail(cookies),
                                                     [info EXCEPT !.session = n.val])
                      ELSE [ok |-> FALSE, info |-> info]
             ELSE ReadCookies_WildcardToken(Tail(cookies), [info EXCEPT !.token = c.value])

\* variant: parse().unwrap_or_default() in place of parse().unwrap()
RECURSIVE ReadCookies_UnwrapOrDefault(_, _)
ReadCookies_UnwrapOrDefault(cookies, info) ==
    IF cookies = <<>> THEN [ok |-> TRUE, info |-> info]
    ELSE LET c == Head(cookies)
         IN  IF c.name = "XSRF-TOKEN"
             THEN ReadCookies_UnwrapOrDefault(Tail(cookies), [info EXCEPT !.token = c.value])
             ELSE IF c.name = "Session"
             THEN LET n == ParseUnsigned(c.value, U32Limbs)
                  IN  ReadCookies_UnwrapOrDefault(
                          Tail(cookies),
                          [info EXCEPT !.session = IF n.ok THEN n.val ELSE Zero(U32Limbs)])
             ELSE ReadCookies_UnwrapOrDefault(Tail(cookies), info)

\* the loop over response.cookies(): ok is FALSE when parse().unwrap() panics
RECURSIVE ReadCookies(_, _)
ReadCookies(cookies, info) ==
    IF cookies = <<>> THEN [ok |-> TRUE, info |-> info]
    ELSE LET c == Head(cookies)
         IN  IF c.name = "XSRF-TOKEN"
             THEN ReadCookies(Tail(cookies), [info EXCEPT !.token = c.value])
             ELSE IF c.name = "Session"
             THEN LET n == ParseUnsigned(c.value, U32Limbs)
                  IN  IF n.ok
                      THEN ReadCookies(Tail(cookies), [info EXCEPT !.session = n.val])
                      ELSE [ok |-> FALSE, info |-> info]
             ELSE ReadCookies(Tail(cookies), info)

\* results the login POST can have
LoginResults ==
    {SendErr}
    \cup {Response(st, cs, NoBody) : st \in LoginStatuses, cs \in CookieLists}

DoLoginRecv ==
    /\ pc = "do_login_wait"
    /\ \E res \in LoginResults :
        /\ Recv(res)
        /\ IF res.outcome # "response"
           THEN Fail(Err("Http", 0)) /\ UNCHANGED response
           ELSE /\ response' = Some(res)
                /\ pc' = "do_login_status"
                /\ UNCHANGED <<error, exit>>
    /\ UNCHANGED <<args, login_info, auth_info, authed_client, raw_data, data,
                   counters, stdout>>

\* do_login, lines 170-182
DoLoginReturn ==
    /\ pc = "do_login_status"
    /\ LET res == Get(response)
       IN  IF ~is_success(res.status)
           THEN Fail(Err("Simple", res.status)) /\ UNCHANGED auth_info
           ELSE LET r == ReadCookies(res.cookies, AuthInfoDefault)
                IN  IF ~r.ok
                    THEN Panic /\ UNCHANGED auth_info
                    ELSE /\ auth_info' = Some(r.info)
                         /\ pc' = "build_client"
                         /\ UNCHANGED <<error, exit>>
    /\ UNCHANGED <<args, log, login_info, authed_client, response, raw_data, data,
                   counters, stdout>>

\* ---- main, lines 95-107 -------------------------------------------------
\* variant: the token header is left out when the token is empty
AuthHeaders_SkipEmptyToken(info) ==
    [content_type |-> "",
     x_xsrf_token |-> IF info.token = <<>> THEN None ELSE Some(info.token),
     cookie |-> Some(SessionEq \o Display(info.session) \o <<";">>)]

\* the HeaderMap given to the second client as its default headers; a cookie
\* value, and the decimal digits of a number, are values HeaderValue::from_str
\* accepts
AuthHeaders(info) ==
    [content_type |-> "",
     x_xsrf_token |-> Some(info.token),
     cookie |-> Some(SessionEq \o Display(info.session) \o <<";">>)]

\* the Response is a local of do_login: it is gone once main goes on
BuildAuthedClient ==
    /\ pc = "build_client"
    /\ authed_client' = Some(AuthHeaders(Get(auth_info)))
    /\ response' = None
    /\ pc' = "fetch_network"
    /\ UNCHANGED <<args, log, login_info, auth_info, raw_data, data, counters,
                   stdout, error, exit>>

\* ---- main, lines 109-117 ------------------------------------------------
FetchNetworkSend ==
    /\ pc = "fetch_network"
    /\ Send(Request("GET", BASE_URI \o "network/1", Get(authed_client), NoPayload))
    /\ pc' = "fetch_network_wait"
    /\ UNCHANGED <<args, login_info, auth_info, authed_client, response, raw_data, data,
                   counters, stdout, error, exit>>

FetchNetworkRecv ==
    /\ pc = "fetch_network_wait"
    /\ \E res \in GetResults :
        /\ Recv(res)
        /\ LET r == fetch_api(res)
           IN  IF ~r.ok
               THEN Fail(Err("Http", 0)) /\ UNCHANGED raw_data
               ELSE /\ raw_data' = Some(r.body)
                    /\ pc' = "parse_data"
                    /\ UNCHANGED <<error, exit>>
    /\ UNCHANGED <<args, login_info, auth_info, authed_client, response, data,
                   counters, stdout>>

\* serde_json::from_str::<Value>: any JSON text parses; members the document
\* does not have index to Null
ParseValue(body) ==
    IF body.kind = "garbage" THEN [ok |-> FALSE, doc |-> NullDoc]
    ELSE IF body.kind = "network" THEN [ok |-> TRUE, doc |-> body.doc]
    ELSE [ok |-> TRUE, doc |-> NullDoc]

\* variant: a body that is not JSON is reported and the run goes on to logout
ParseData_LogoutOnError ==
    /\ pc = "parse_data"
    /\ LET r == ParseValue(Get(raw_data))
       IN  IF ~r.ok
           THEN /\ error' = Some(Err("Json", 0))
                /\ pc' = "logout"
                /\ UNCHANGED <<data, exit>>
           ELSE /\ data' = Some(r.doc)
                /\ pc' = "extract"
                /\ UNCHANGED <<error, exit>>
    /\ UNCHANGED <<args, log, login_info, auth_info, authed_client, response, raw_data,
                   counters, stdout>>

ParseData ==
    /\ pc = "parse_data"
    /\ LET r == ParseValue(Get(raw_data))
       IN  IF ~r.ok
           THEN Fail(Err("Json", 0)) /\ UNCHANGED data
           ELSE /\ data' = Some(r.doc)
                /\ pc' = "extract"
                /\ UNCHANGED <<error, exit>>
    /\ UNCHANGED <<args, log, login_info, auth_info, authed_client, response, raw_data,
                   counters, stdout>>

\* variant: as_u64().unwrap_or(0) in place of as_u64().unwrap()
Times8_UnwrapOrZero(v, overflow_checks) ==
    LET m == MulAdd(IF v.kind = "u64" THEN v.val ELSE Zero(U64Limbs), 8, 0)
    IN  IF m.carry # 0 /\ overflow_checks
        THEN [ok |-> FALSE, val |-> Zero(U64Limbs)]
        ELSE [ok |-> TRUE, val |-> m.val]

\* v.as_u64().unwrap() * 8.  A product that does not fit 64 bits panics in a
\* build with overflow checks and wraps in a build without them.
Times8(v, overflow_checks) ==
    IF v.kind # "u64" THEN [ok |-> FALSE, val |-> Zero(U64Limbs)]
    ELSE LET m == MulAdd(v.val, 8, 0)
         IN  IF m.carry # 0 /\ overflow_checks
             THEN [ok |-> FALSE, val |-> Zero(U64Limbs)]
             ELSE [ok |-> TRUE, val |-> m.val]

\* the line println! writes
DataLine(c) ==
    [rx |-> Display(c.rx), tx |-> Display(c.tx),
     errors |-> Display(c.errors), dropped |-> Display(c.dropped)]

\* variant: the push to InfluxDB is never reached
AfterPrint_NoPush(influx_db) == "logout"

\* if let Some(influx_db) = args.value_of("influx_db")
AfterPrint(influx_db) == IF IsSome(influx_db) THEN "save_data" ELSE "logout"

Extract ==
    /\ pc = "extract"
    /\ \E overflow_checks \in BOOLEAN :
        LET d  == Get(data)
            rx == Times8(d.minutesRx0, overflow_checks)
            tx == Times8(d.minutesTx0, overflow_checks)
            er == Times8(d.rxErrors, overflow_checks)
            dr == Times8(d.rxDropped, overflow_checks)
        IN  IF ~(rx.ok /\ tx.ok /\ er.ok /\ dr.ok)
            THEN Panic /\ UNCHANGED <<counters, stdout>>
            ELSE LET c == [rx |-> rx.val, tx |-> tx.val,
                           errors |-> er.val, dropped |-> dr.val]
                 IN  /\ counters' = Some(c)
                     /\ stdout' = Append(stdout, DataLine(c))
                     /\ pc' = AfterPrint(args.influx_db)
                     /\ UNCHANGED <<error, exit>>
    /\ UNCHANGED <<args, log, login_info, auth_info, authed_client, response, raw_data, data>>

\* ---- main, lines 121-133, and save_data ---------------------------------
\* influx_data: one line per entry of influx_map; a HashMap iterates in no
\* fixed order, so the body is the set of its lines
InfluxLine(key, val) ==
    [key |-> key, host |-> "myfiosgateway.com", value |-> Display(val)]

InfluxData(c) ==
    [kind |-> "lines", password |-> "",
     lines |-> {InfluxLine("net_tx", c.tx), InfluxLine("net_rx", c.rx),
                InfluxLine("net_rx_errors", c.errors),
                InfluxLine("net_rx_dropped", c.dropped)}]

\* variant: save_data is given the authenticated client
SaveDataSend_AuthedClient ==
    /\ pc = "save_data"
    /\ Send(Request("POST", Get(args.influx_db),
                    [Get(authed_client) EXCEPT !.content_type = CONTENT_TYPE_JSON],
                    InfluxData(Get(counters))))
    /\ pc' = "save_data_wait"
    /\ UNCHANGED <<args, login_info, auth_info, authed_client, response, raw_data, data,
                   counters, stdout, error, exit>>

SaveDataSend ==
    /\ pc = "save_data"
    /\ Send(Request("POST", Get(args.influx_db),
                    [client EXCEPT !.content_type = CONTENT_TYPE_JSON],
                    InfluxData(Get(counters))))
    /\ pc' = "save_data_wait"
    /\ UNCHANGED <<args, login_info, auth_info, authed_client, response, raw_data, data,
                   counters, stdout, error, exit>>

\* results the POST to InfluxDB can have
InfluxResults ==
    {SendErr} \cup {Response(st, <<>>, NoBody) : st \in InfluxStatuses}

\* variant: any success status of the sink is taken
StatusExpected_AnySuccess(st) == is_success(st)

\* response.status() != reqwest::StatusCode::NO_CONTENT, negated
StatusExpected(st) == st = NO_CONTENT

\* variant: main returns Ok(()) right after the push
SaveDataRecv_ReturnsOk ==
    /\ pc = "save_data_wait"
    /\ \E res \in InfluxResults :
        /\ Recv(res)
        /\ IF res.outcome # "response"
           THEN Fail(Err("Http", 0))
           ELSE IF ~StatusExpected(res.status)
           THEN Fail(Err("Simple", res.status))
           ELSE pc' = "done" /\ exit' = Some(0) /\ UNCHANGED error
    /\ UNCHANGED <<args, login_info, auth_info, authed_client, response, raw_data, data,
                   counters, stdout>>

SaveDataRecv ==
    /\ pc = "save_data_wait"
    /\ \E res \in InfluxResults :
        /\ Recv(res)
        /\ IF res.outcome # "response"
           THEN Fail(Err("Http", 0))
           ELSE IF ~StatusExpected(res.status)
           THEN Fail(Err("Simple", res.status))
           ELSE pc' = "logout" /\ UNCHANGED <<error, exit>>
    /\ UNCHANGED <<args, login_info, auth_info, authed_client, response, raw_data, data,
                   counters, stdout>>

\* ---- main, lines 135-137 ------------------------------------------------
\* variant: logout goes through the first client
LogoutSend_PlainClient ==
    /\ pc = "logout"
    /\ Send(Request("GET", BASE_URI \o "logout", client, NoPayload))
    /\ pc' = "logout_wait"
    /\ UNCHANGED <<args, login_info, auth_info, authed_client, response, raw_data, data,
                   counters, stdout, error, exit>>

LogoutSend ==
    /\ pc = "logout"
    /\ Send(Request("GET", BASE_URI \o "logout", Get(authed_client), NoPayload))
    /\ pc' = "logout_wait"
    /\ UNCHANGED <<args, login_info, auth_info, authed_client, response, raw_data, data,
                   counters, stdout, error, exit>>

\* results of GET logout; the body is read and dropped
LogoutResults ==
    {SendErr}
    \cup {TextErr(st) : st \in GetStatuses}
    \cup {Response(st, <<>>, NoBody) : st \in GetStatuses}

LogoutRecv ==
    /\ pc = "logout_wait"
    /\ \E res \in LogoutResults :
        /\ Recv(res)
        /\ LET r == fetch_api(res)
           IN  IF ~r.ok
               THEN Fail(Err("Http", 0))
               ELSE /\ pc' = "done"
                    /\ exit' = Some(0)
                    /\ UNCHANGED error
    /\ UNCHANGED <<args, login_info, auth_info, authed_client, response, raw_data, data,
                   counters, stdout>>

Next ==
    \/ GetLoginInfoSend
    \/ GetLoginInfoRecv
    \/ DoLoginSend
    \/ DoLoginRecv
    \/ DoLoginReturn
    \/ BuildAuthedClient
    \/ FetchNetworkSend
    \/ FetchNetworkRecv
    \/ ParseData
    \/ Extract
    \/ SaveDataSend
    \/ SaveDataRecv
    \/ LogoutSend
    \/ LogoutRecv

Spec == Init /\ [][Next]_vars




(***************************************************************************)
(* Vocabulary of the properties: the requests of a run, read off the log.  *)
(***************************************************************************)
IsGetLogin(e) == e.method = "GET" /\ e.url = "https://myfiosgateway.com/api/login"
IsPostLogin(e) == e.method = "POST" /\ e.url = "https://myfiosgateway.com/api/login"
IsGetNetwork(e) == e.method = "GET" /\ e.url = "https://myfiosgateway.com/api/network/1"
IsGetLogout(e) == e.method = "GET" /\ e.url = "https://myfiosgateway.com/api/logout"
IsSinkPost(e) == e.method = "POST" /\ IsSome(args.influx_db) /\ e.url = Get(args.influx_db)

StepName(e) ==
    IF IsGetLogin(e) THEN "GET login"
    ELSE IF IsPostLogin(e) THEN "POST login"
    ELSE IF IsGetNetwork(e) THEN "GET network/1"
    ELSE IF IsGetLogout(e) THEN "GET logout"
    ELSE IF IsSinkPost(e) THEN "POST sink"
    ELSE "unknown"

Answered(e) == e.result.outcome = "response"

\* the request was answered with the status its step asks for
StepSucceeded(e) ==
    /\ Answered(e)
    /\ IsPostLogin(e) => e.result.status \in 200..299
    /\ IsSinkPost(e) => e.result.status = 204

\* the request came back, and the step failed
StepFailed(e) == e.result.outcome # "pending" /\ ~StepSucceeded(e)

Requests(P(_)) == {i \in 1..Len(log) : P(log[i])}

Exited == pc = "done"

IsPrefix(p, q) == Len(p) <= Len(q) /\ \A i \in 1..Len(p) : p[i] = q[i]

\* the order of the network steps of a run
StepOrder ==
    IF IsSome(args.influx_db)
    THEN <<"GET login", "POST login", "GET network/1", "POST sink", "GET logout">>
    ELSE <<"GET login", "POST login", "GET network/1", "GET logout">>

(***************************************************************************)
(* C1: the requests of a run are issued in the order GET login, POST       *)
(* login, GET network/1, sink POST (when a sink URI was given), GET        *)
(* logout; a request is issued only after every earlier one completed      *)
(* successfully (the challenge parsed before the login POST, the           *)
(* credential returned before GET network/1, the counters extracted before *)
(* anything after it); at most one request is outstanding at any time.     *)
(***************************************************************************)
C1_SequentialOrder ==
    /\ IsPrefix([i \in 1..Len(log) |-> StepName(log[i])], StepOrder)
    /\ \A i \in 1..Len(log) : i < Len(log) => StepSucceeded(log[i])
    /\ Len(log) >= 2 => IsSome(login_info)
    /\ Len(log) >= 3 => IsSome(auth_info) /\ IsSome(authed_client)
    /\ Len(log) >= 4 => IsSome(data) /\ IsSome(counters)
    /\ Cardinality(Requests(LAMBDA e : e.result.outcome = "pending")) <= 1

\* a run with a sink that issued all five requests and exited with status 0
C1_Witness ==
    /\ Exited
    /\ exit = Some(0)
    /\ Len(log) = 5

(***************************************************************************)
(* C2: when the login POST is answered with a non-success status, main     *)
(* ends with the error of do_login carrying that status, no AuthInfo       *)
(* exists, and no request to network/1 or logout is ever issued.           *)
(***************************************************************************)
C2_LoginRejected ==
    \A i \in Requests(IsPostLogin) :
        (Answered(log[i]) /\ log[i].result.status \notin 200..299) =>
            /\ auth_info = None
            /\ authed_client = None
            /\ Requests(IsGetNetwork) = {}
            /\ Requests(IsGetLogout) = {}
            /\ i = Len(log)
            /\ pc \in {"do_login_status", "done"}
            /\ Exited =>
                  /\ error = Some(Err("Simple", log[i].result.status))
                  /\ exit = Some(1)

\* the router answered the login POST with 401 and both cookies
C2_Witness ==
    /\ Exited
    /\ Len(log) = 2
    /\ Answered(log[2]) /\ log[2].result.status = 401
    /\ Get(response).cookies =
          <<[name |-> "XSRF-TOKEN", value |-> <<"a", "b">>],
            [name |-> "Session", value |-> <<"1", "2", "3", "4">>]>>

(***************************************************************************)
(* C3: a run in which GET network/1 succeeded issues GET logout before     *)
(* the process exits.                                                      *)
(*  - as claimed: also when JSON parsing, counter extraction or the sink   *)
(*    push fails afterwards (C3_LogoutAlways);                             *)
(*  - as the code has it: when none of them fails; a run in which one of   *)
(*    them fails exits without a logout (C3_LogoutAfterSuccess).           *)
(***************************************************************************)
NetworkFetched == \E i \in Requests(IsGetNetwork) : Answered(log[i])

SinkPushed == \E i \in Requests(IsSinkPost) : StepSucceeded(log[i])

\* JSON parsing, counter extraction and the sink push (if any) all succeeded
LaterStepsSucceeded ==
    /\ data # None
    /\ counters # None
    /\ IsSome(args.influx_db) => SinkPushed

C4_Once ==
    /\ \A i, j \in 1..Len(log) : StepName(log[i]) = StepName(log[j]) => i = j
    /\ \A i \in 1..Len(log) :
          StepFailed(log[i]) => (i = Len(log) /\ pc \in {"do_login_status", "done"})
    /\ error # None => (Exited /\ exit \in {Some(1), Some(101)})

C4_NoRetry == [](C4_Once) /\ [][(error # None \/ Exited) => log' = log]_vars

\* the JSON of network/1 did not parse: a failure after which nothing is sent
C4_Witness ==
    /\ Exited
    /\ error = Some(Err("Json", 0))
    /\ NetworkFetched
    /\ Len(log) = 3

(***************************************************************************)
(* C5: every request to network/1 and to logout carries X-XSRF-TOKEN with  *)
(* the token obtained at login and the cookie header Session=<id>; with    *)
(* the decimal session id obtained at login; the credential and the        *)
(* headers of the authenticated client never change once they exist.       *)
(***************************************************************************)
\* decimal digits of the number a text denotes: no sign, no leading 0
RECURSIVE StripZeros(_)
StripZeros(s) ==
    IF s = <<>> THEN <<"0">>
    ELSE IF s[1] = "0" THEN StripZeros(Tail(s))
    ELSE s

Canonical(s) == StripZeros(IF s # <<>> /\ s[1] = "+" THEN Tail(s) ELSE s)

\* s <= t for digit strings of equal length
RECURSIVE DigitsLeq(_, _)
DigitsLeq(s, t) ==
    IF s = <<>> THEN TRUE
    ELSE IF DigitVal(s[1]) < DigitVal(t[1]) THEN TRUE
    ELSE IF DigitVal(s[1]) > DigitVal(t[1]) THEN FALSE
    ELSE DigitsLeq(Tail(s), Tail(t))

\* the text is an unsigned decimal integer below 2^32
IsU32Text(s) ==
    LET ds == IF s # <<>> /\ s[1] = "+" THEN Tail(s) ELSE s
        c  == Canonical(s)
    IN  /\ ds # <<>>
        /\ \A k \in 1..Len(ds) : ds[k] \in {"0", "1", "2", "3", "4", "5", "6", "7", "8", "9"}
        /\ \/ Len(c) < 10
           \/ Len(c) = 10 /\ DigitsLeq(c, <<"4", "2", "9", "4", "9", "6", "7", "2", "9", "5">>)

\* the header value is Session=<d>; with d the decimal digits of session
IsSessionCookieOf(c, session) ==
    /\ Len(c) >= 10
    /\ SubSeq(c, 1, 8) = <<"S", "e", "s", "s", "i", "o", "n", "=">>
    /\ c[Len(c)] = ";"
    /\ LET d == SubSeq(c, 9, Len(c) - 1)
       IN  /\ IsU32Text(d)
           /\ d = Canonical(d)
           /\ ParseUnsigned(d, 2).val = session

AuthedRequests == Requests(IsGetNetwork) \cup Requests(IsGetLogout)

C5_Headers ==
    \A i \in AuthedRequests :
        /\ log[i].headers.content_type = ""
        /\ log[i].headers.x_xsrf_token = Some(Get(auth_info).token)
        /\ IsSome(log[i].headers.cookie)
        /\ IsSessionCookieOf(Get(log[i].headers.cookie), Get(auth_info).session)
        /\ log[i].headers = Get(authed_client)

C5_AuthHeadersFixed ==
    /\ [](C5_Headers)
    /\ [][/\ IsSome(auth_info) => auth_info' = auth_info
          /\ IsSome(authed_client) => authed_client' = authed_client]_vars

\* both authenticated requests went out, with the largest session id
C5_Witness ==
    /\ Requests(IsGetLogout) # {}
    /\ Get(auth_info) = [token |-> <<"7">>, session |-> <<65535, 65535>>]
    /\ log[Len(log)].headers.cookie =
          Some(<<"S", "e", "s", "s", "i", "o", "n", "=",
                 "4", "2", "9", "4", "9", "6", "7", "2", "9", "5", ";">>)

(***************************************************************************)
(* C6: when the login POST is answered with a success status and the       *)
(* answer carries an XSRF-TOKEN cookie and a Session cookie whose value is *)
(* an integer, do_login returns an AuthInfo whose token is the value of    *)
(* the XSRF-TOKEN cookie and whose session is the integer the Session      *)
(* cookie denotes; cookies of other names have no effect.  (When a name is *)
(* repeated the last cookie of that name is the one meant.)                *)
(***************************************************************************)
CookiesNamed(cs, name) == {k \in 1..Len(cs) : cs[k].name = name}

LastOf(S) == CHOOSE k \in S : \A m \in S : m <= k

\* value of the last cookie called name
LastCookie(cs, name) == cs[LastOf(CookiesNamed(cs, name))].value

SessionCookiesAreIntegers(cs) ==
    \A k \in CookiesNamed(cs, "Session") : IsU32Text(cs[k].value)

\* do_login has dealt with a success answer to the login POST
LoginAnswerHandled ==
    /\ IsSome(response)
    /\ pc # "do_login_status"
    /\ Get(response).status \in 200..299

LoginCookies == Get(response).cookies

C6_CredentialFromCookies ==
    (/\ LoginAnswerHandled
     /\ CookiesNamed(LoginCookies, "XSRF-TOKEN") # {}
     /\ CookiesNamed(LoginCookies, "Session") # {}
     /\ SessionCookiesAreIntegers(LoginCookies)) =>
        /\ pc = "build_client"
        /\ IsSome(auth_info)
        /\ Get(auth_info).token = LastCookie(LoginCookies, "XSRF-TOKEN")
        /\ Display(Get(auth_info).session) = Canonical(LastCookie(LoginCookies, "Session"))
        /\ LastCookie(LoginCookies, "Session") = <<"1", "2", "3", "4">>
              => Get(auth_info).session = <<0, 1234>>

\* Session=1234 and XSRF-TOKEN=ab arrived around a cookie of another name
C6_Witness ==
    /\ LoginAnswerHandled
    /\ LoginCookies = <<[name |-> "Session", value |-> <<"1", "2", "3", "4">>],
                        [name |-> "lang", value |-> <<"1">>],
                        [name |-> "XSRF-TOKEN", value |-> <<"a", "b">>]>>
    /\ auth_info = Some([token |-> <<"a", "b">>, session |-> <<0, 1234>>])

(***************************************************************************)
(* C7: a success answer to the login POST that lacks the XSRF-TOKEN cookie *)
(* or the Session cookie makes do_login fail: no AuthInfo is returned and  *)
(* no authenticated client is built from an empty token or a defaulted     *)
(* session id.                                                             *)
(***************************************************************************)
C7_MissingCookieFails ==
    (/\ LoginAnswerHandled
     /\ \/ CookiesNamed(LoginCookies, "XSRF-TOKEN") = {}
        \/ CookiesNamed(LoginCookies, "Session") = {}) =>
        /\ auth_info = None
        /\ error # None

(***************************************************************************)
(* C8: when the login POST is answered with a success status and the       *)
(* answer lacks the XSRF-TOKEN cookie and/or the Session cookie (a Session *)
(* cookie that is present being an integer), do_login returns an AuthInfo  *)
(* whose missing field has its default (empty token, session 0); after a   *)
(* returned AuthInfo the run goes on to GET network/1, which carries these *)
(* values in its headers.                                                  *)
(***************************************************************************)
C8_MissingCookieDefaults ==
    /\ (/\ LoginAnswerHandled
        /\ SessionCookiesAreIntegers(LoginCookies)
        /\ \/ CookiesNamed(LoginCookies, "XSRF-TOKEN") = {}
           \/ CookiesNamed(LoginCookies, "Session") = {}) =>
           /\ pc = "build_client"
           /\ IsSome(auth_info)
           /\ CookiesNamed(LoginCookies, "XSRF-TOKEN") = {} => Get(auth_info).token = <<>>
           /\ CookiesNamed(LoginCookies, "Session") = {} => Get(auth_info).session = <<0, 0>>
    /\ IsSome(auth_info) =>
           /\ pc \in {"build_client", "fetch_network"} \/ Requests(IsGetNetwork) # {}
           /\ \A j \in Requests(IsGetNetwork) :
                 /\ Get(auth_info).token = <<>> =>
                       log[j].headers.x_xsrf_token = Some(<<>>)
                 /\ Get(auth_info).session = <<0, 0>> =>
                       log[j].headers.cookie =
                          Some(<<"S", "e", "s", "s", "i", "o", "n", "=", "0", ";">>)

\* GET network/1 went out with an empty token and Session=0;
C8_Witness ==
    /\ Requests(IsGetNetwork) # {}
    /\ auth_info = Some([token |-> <<>>, session |-> <<0, 0>>])
    /\ log[3].headers.x_xsrf_token = Some(<<>>)
    /\ log[3].headers.cookie = Some(<<"S", "e", "s", "s", "i", "o", "n", "=", "0", ";">>)

(***************************************************************************)
(* C9: when the login POST is answered with a success status and a Session *)
(* cookie whose value is not an unsigned 32-bit integer, the run ends at   *)
(* login: the process panics, no AuthInfo exists (the session is not       *)
(* defaulted to zero) and no authenticated request is issued.              *)
(***************************************************************************)
C9_BadSessionIsFatal ==
    (LoginAnswerHandled /\ ~SessionCookiesAreIntegers(LoginCookies)) =>
        /\ Exited
        /\ exit = Some(101)
        /\ error = Some(Err("Panic", 0))
        /\ auth_info = None
        /\ authed_client = None
        /\ Len(log) = 2

\* the Session cookie held 4294967296, after a well-formed XSRF-TOKEN cookie
C9_Witness ==
    /\ Exited
    /\ LoginAnswerHandled
    /\ LoginCookies =
          <<[name |-> "XSRF-TOKEN", value |-> <<"a", "b">>],
            [name |-> "Session",
             value |-> <<"4", "2", "9", "4", "9", "6", "7", "2", "9", "6">>]>>

(***************************************************************************)
(* C10: GET logout is issued only after GET network/1 was answered, after  *)
(* the counters line was printed and, when a sink URI was given, after the *)
(* sink answered the push with 204; a failing logout leaves the printed    *)
(* line and the completed push as they were.                               *)
(***************************************************************************)
C10_LogoutLast ==
    \A i \in Requests(IsGetLogout) :
        /\ \E j \in Requests(IsGetNetwork) : j < i /\ Answered(log[j])
        /\ IsSome(counters)
        /\ stdout = <<DataLine(Get(counters))>>
        /\ IsSome(args.influx_db) =>
              \E j \in Requests(IsSinkPost) :
                  j < i /\ Answered(log[j]) /\ log[j].result.status = 204

\* logout failed in a run with a sink: the process exits with status 1
C10_Witness ==
    /\ Exited
    /\ exit = Some(1)
    /\ IsSome(args.influx_db)
    /\ stdout # <<>>
    /\ \E i \in Requests(IsGetLogout) : log[i].result.outcome = "send_err"


(***************************************************************************)
(* C11: the sink POST is issued only when a sink URI was given, and only   *)
(* after the counters were extracted and printed; save_data succeeds       *)
(* exactly when the sink answers 204; any other status, 200 included, ends *)
(* the run with an error carrying the status, the line already printed     *)
(* staying as it was.                                                      *)
(***************************************************************************)
\* requests that carry metric lines, or are POSTs to something else than login
PushRequests ==
    {i \in 1..Len(log) :
        \/ log[i].payload.kind = "lines"
        \/ log[i].method = "POST" /\ ~IsPostLogin(log[i])}

C11_SinkPush ==
    /\ args.influx_db = None => PushRequests = {}
    /\ \A i \in PushRequests :
        /\ log[i].url = Get(args.influx_db)
        /\ log[i].method = "POST"
        /\ IsSome(counters)
        /\ stdout = <<DataLine(Get(counters))>>
        /\ log[i].payload = InfluxData(Get(counters))
        /\ (Answered(log[i]) /\ log[i].result.status = 204) =>
              /\ pc \in {"logout", "logout_wait", "done"}
              /\ Requests(IsGetLogout) = {} => pc = "logout"
        /\ (Answered(log[i]) /\ log[i].result.status # 204) =>
              /\ Exited
              /\ error = Some(Err("Simple", log[i].result.status))
              /\ exit = Some(1)
              /\ i = Len(log)

\* the sink answered 200: the run failed, the line stays printed
C11_Witness ==
    /\ Exited
    /\ stdout # <<>>
    /\ \E i \in Requests(IsSinkPost) : Answered(log[i]) /\ log[i].result.status = 200

(***************************************************************************)
(* C12: the process exits with status 0 only when the challenge fetch, the *)
(* login, the authenticated fetch, the JSON parse, the counter extraction  *)
(* and the sink push (when configured) all succeeded; it exits with a      *)
(* non-zero status whenever one of them fails.                             *)
(***************************************************************************)
\* the steps the exit status answers for
AllStepsSucceeded ==
    /\ IsSome(login_info)
    /\ IsSome(auth_info)
    /\ NetworkFetched
    /\ IsSome(data)
    /\ IsSome(counters)
    /\ IsSome(args.influx_db) => SinkPushed

\* one of these steps came to an end without success
SomeStepFailed ==
    \/ \E i \in 1..Len(log) : ~IsGetLogout(log[i]) /\ StepFailed(log[i])
    \/ Len(log) = 1 /\ Answered(log[1]) /\ login_info = None
    \/ Len(log) = 2 /\ Answered(log[2]) /\ auth_info = None
    \/ Len(log) = 3 /\ Answered(log[3]) /\ (data = None \/ counters = None)

C12_ExitStatus ==
    Exited =>
        /\ IsSome(exit)
        /\ exit = Some(0) => (AllStepsSucceeded /\ error = None)
        /\ SomeStepFailed => exit \in {Some(1), Some(101)}
        /\ ~AllStepsSucceeded => exit \in {Some(1), Some(101)}

\* a sink push answered 500: exit status 1
C12_Witness ==
    /\ Exited
    /\ exit = Some(1)
    /\ \E i \in Requests(IsSinkPost) : Answered(log[i]) /\ log[i].result.status = 500

(***************************************************************************)
(* C13: when the network-status document lacks one of the four counters,   *)
(* or holds there something that is not an unsigned integer, extraction    *)
(* panics: no counter is replaced by zero, no line is printed, no push is  *)
(* issued.                                                                 *)
(***************************************************************************)
HasAllCounters(d) ==
    /\ d.minutesRx0.kind = "u64"
    /\ d.minutesTx0.kind = "u64"
    /\ d.rxErrors.kind = "u64"
    /\ d.rxDropped.kind = "u64"

C13_MissingCounterIsFatal ==
    (IsSome(data) /\ pc # "extract" /\ ~HasAllCounters(Get(data))) =>
        /\ Exited
        /\ exit = Some(101)
        /\ counters = None
        /\ stdout = <<>>
        /\ Requests(IsSinkPost) = {}
        /\ Len(log) = 3

\* the document without rxErrors, in a run with a sink
C13_Witness ==
    /\ Exited
    /\ IsSome(args.influx_db)
    /\ data = Some([SampleDoc EXCEPT !.rxErrors = Null])


(***************************************************************************)
(* C14: fetch_api does not look at the HTTP status: whenever a response    *)
(* arrives and its body can be read, that body is returned, with status    *)
(* 500 as with status 200; it fails only when the request cannot be sent   *)
(* or the body cannot be read.                                             *)
(***************************************************************************)
\* requests that went through fetch_api and have come back
Fetched == {i \in Requests(LAMBDA e : e.method = "GET") : log[i].result.outcome # "pending"}

\* fetch_api returned Ok(body) for request i: its caller went on with the body
FetchReturned(i, body) ==
    \/ /\ IsGetLogin(log[i])
       /\ IF body.kind = "login"
          THEN login_info = Some(body.salt)
          ELSE Exited /\ error = Some(Err("Json", 0)) /\ Len(log) = 1
    \/ /\ IsGetNetwork(log[i])
       /\ raw_data = Some(body)
    \/ /\ IsGetLogout(log[i])
       /\ Exited /\ exit = Some(0) /\ error = None

\* fetch_api returned Err for request i
FetchFailed(i) ==
    /\ Exited
    /\ error = Some(Err("Http", 0))
    /\ i = Len(log)
    /\ IsGetNetwork(log[i]) => raw_data = None

C14_StatusNotInterpreted ==
    \A i \in Fetched :
        /\ Answered(log[i]) => FetchReturned(i, log[i].result.body)
        /\ ~Answered(log[i]) => FetchFailed(i)

\* network/1 answered 500 with the sample document, and the run printed it
C14_Witness ==
    /\ Len(log) >= 3
    /\ Answered(log[3])
    /\ log[3].result.status = 500
    /\ raw_data = Some(MkBody("network", "", SampleDoc))
    /\ stdout # <<>>


(***************************************************************************)
(* C15: the body of the login POST is {"password": H} with H the SHA-512   *)
(* digest, in hex, of the password followed without separator by the       *)
(* passwordSalt that the challenge GET of this run returned; H is a        *)
(* function of that concatenation alone; no request carries the password   *)
(* itself.                                                                 *)
(***************************************************************************)
\* the digest a message has: equal messages, and only they, share a digest
DigestOf(msg) == "sha512:" \o msg

\* what a request sends besides its URL and headers
SentTexts(e) == {e.payload.password} \cup {l.key : l \in e.payload.lines}

C15_LoginBody ==
    /\ \A i \in Requests(IsPostLogin) :
          /\ Answered(log[1])
          /\ log[1].result.body.kind = "login"
          /\ log[i].payload.kind = "json"
          /\ log[i].payload.lines = {}
          /\ log[i].payload.password = DigestOf(args.password \o log[1].result.body.salt)
          /\ log[i].headers.content_type = "application/json;charset=UTF-8"
    /\ \A i \in 1..Len(log) :
          /\ args.password \notin SentTexts(log[i])
          /\ ~IsPostLogin(log[i]) => log[i].payload.password = ""

\* password pw with the salt w: the digest of pww went out
C15_Witness ==
    /\ Len(log) >= 2
    /\ args.password = "pw"
    /\ login_info = Some("w")
    /\ log[2].payload.password = "sha512:pww"


(***************************************************************************)
(* C16: each emitted counter (rx, tx, errors, dropped) is exactly 8 times  *)
(* the unsigned integer the document holds at its path, for every value of *)
(* the unsigned 64-bit range, without wrap-around or truncation; the       *)
(* values pushed to the sink are the values printed.                       *)
(***************************************************************************)
\* c is 8 times v, computed with one more limb than 64 bits
IsEightTimes(c, v) == <<0>> \o c = MulAdd(<<0>> \o v, 8, 0).val

\* the value the body of the push gives for a metric
PushedValues(e, key) == {l.value : l \in {m \in e.payload.lines : m.key = key}}

C16_TimesEight ==
    IsSome(counters) =>
        /\ IsEightTimes(Get(counters).rx, Get(data).minutesRx0.val)
        /\ IsEightTimes(Get(counters).tx, Get(data).minutesTx0.val)
        /\ IsEightTimes(Get(counters).errors, Get(data).rxErrors.val)
        /\ IsEightTimes(Get(counters).dropped, Get(data).rxDropped.val)
        /\ \A i \in Requests(IsSinkPost) :
              /\ PushedValues(log[i], "net_rx") = {stdout[1].rx}
              /\ PushedValues(log[i], "net_tx") = {stdout[1].tx}
              /\ PushedValues(log[i], "net_rx_errors") = {stdout[1].errors}
              /\ PushedValues(log[i], "net_rx_dropped") = {stdout[1].dropped}


(***************************************************************************)
(* C17: the credential goes to the router only: the sink POST, the         *)
(* challenge GET and the login POST carry neither X-XSRF-TOKEN nor a       *)
(* cookie header, and only requests to network/1 and logout of the router  *)
(* carry them.                                                             *)
(***************************************************************************)
CarriesNoCredential(e) ==
    /\ e.headers.x_xsrf_token = None
    /\ e.headers.cookie = None

C17_CredentialStaysWithRouter ==
    \A i \in 1..Len(log) :
        /\ (IsSinkPost(log[i]) \/ IsGetLogin(log[i]) \/ IsPostLogin(log[i]))
              => CarriesNoCredential(log[i])
        /\ ~CarriesNoCredential(log[i]) => (IsGetNetwork(log[i]) \/ IsGetLogout(log[i]))
        /\ log[i].url = INFLUX_URI =>
              /\ CarriesNoCredential(log[i])
              /\ log[i].payload = InfluxData(Get(counters))

\* the push went out in a run whose login returned a token and a session id
C17_Witness ==
    /\ Requests(IsSinkPost) # {}
    /\ auth_info = Some([token |-> <<"a", "b">>, session |-> <<0, 1234>>])
    /\ \E i \in Requests(IsGetNetwork) : log[i].headers.x_xsrf_token = Some(<<"a", "b">>)

====
